---- MODULE Spec2Model ----
(***************************************************************************)
(* A model of the GOST document formatter (src/app/services/formatter.py). *)
(*                                                                         *)
(* Text is a sequence of characters.  A character is a short ASCII string: *)
(* Cyrillic letters are written in transliteration ("r" is the Cyrillic    *)
(* letter er, "R" its capital, "zh"/"ZH" zhe, ...), and the punctuation    *)
(* the code distinguishes has a name each (NBSP, EN, EM, ...).             *)
(* A document is a sequence of paragraphs, a paragraph a sequence of items *)
(* (a run, or a hyperlink holding text) plus its paragraph properties.     *)
(***************************************************************************)
EXTENDS Integers, Sequences, FiniteSets, TLC

VARIABLES doc, tables, pc, title_end_idx, result, saved, exists, invocation, doc0, out1, prev, lastPass, done,
          scan, handler

vars == <<doc, tables, pc, title_end_idx, result, saved, exists, invocation, doc0, out1, prev, lastPass, done,
          scan, handler>>

(***************************************************************************)
(* Characters                                                              *)
(***************************************************************************)
SP == " "
NBSP == "nbsp"
TAB == "tab"
NL == "nl"
HY == "-"
EN == "en"
EM == "em"
COL == ":"
DOT == "."
SEMI == ";"
COMMA == ","
EXCL == "!"
DQ == "dq"
LOWQ == "lowq"
APOS == "apos"
CURLQ == "curlq"
LG == "lg"
RG == "rg"
LPAR == "("
LBRK == "["
NUMERO == "No"
SECT == "sect"
PCT == "%"
DEG == "deg"
LATC == "latC"

LowerSeq == <<"a","b","v","g","d","e","zh","z","i","j","k","l","m","n","o","p","r","s","t","u","f","h","c","ch","sh","sc","w","y","q","x","yu","ya">>
UpperSeq == <<"A","B","V","G","D","E","ZH","Z","I","J","K","L","M","N","O","P","R","S","T","U","F","H","C","CH","SH","SC","W","Y","Q","X","YU","YA">>

LowerSet == {LowerSeq[i] : i \in 1..Len(LowerSeq)}
UpperSet == {UpperSeq[i] : i \in 1..Len(UpperSeq)} \cup {LATC}
Digits == {"0","1","2","3","4","5","6","7","8","9"}
WS == {SP, NBSP, TAB, NL}

UpperMap == [c \in LowerSet |-> UpperSeq[CHOOSE i \in 1..Len(LowerSeq) : LowerSeq[i] = c]]
LowerMap == [c \in UpperSet \ {LATC} |-> LowerSeq[CHOOSE i \in 1..Len(UpperSeq) : UpperSeq[i] = c]]

\* str.upper() / str.lower() of one character
UpperCh(c) == IF c \in LowerSet THEN UpperMap[c] ELSE c
LowerCh(c) == IF c \in UpperSet \ {LATC} THEN LowerMap[c] ELSE IF c = LATC THEN "latc" ELSE c
IsUpper(c) == c \in UpperSet
IsAlpha(c) == c \in UpperSet \cup LowerSet \cup {"latc"}
\* \w of the re module: letters, digits and the underscore
IsWord(c) == IsAlpha(c) \/ c \in Digits \/ c = "_"

(***************************************************************************)
(* str methods                                                             *)
(***************************************************************************)
Upper(t) == [i \in 1..Len(t) |-> UpperCh(t[i])]
Lower(t) == [i \in 1..Len(t) |-> LowerCh(t[i])]

RECURSIVE LStripSet(_, _)
LStripSet(t, S) == IF t # <<>> /\ Head(t) \in S THEN LStripSet(Tail(t), S) ELSE t

RECURSIVE RStripSet(_, _)
RStripSet(t, S) == IF t # <<>> /\ t[Len(t)] \in S THEN RStripSet(SubSeq(t, 1, Len(t) - 1), S) ELSE t

LStrip(t) == LStripSet(t, WS)
RStrip(t) == RStripSet(t, WS)
Strip(t) == LStrip(RStrip(t))

\* t[i:] and t[:i] with 1-based i
From(t, i) == SubSeq(t, i, Len(t))
Upto(t, i) == SubSeq(t, 1, i)

StartsAt(t, i, lit) == i + Len(lit) - 1 <= Len(t) /\ SubSeq(t, i, i + Len(lit) - 1) = lit
StartsWith(t, lit) == StartsAt(t, 1, lit)
EndsWith(t, lit) == Len(lit) <= Len(t) /\ From(t, Len(t) - Len(lit) + 1) = lit
\* a literal matched under re.IGNORECASE
StartsAtCI(t, i, lit) == i + Len(lit) - 1 <= Len(t) /\ Lower(SubSeq(t, i, i + Len(lit) - 1)) = Lower(lit)
\* lit in t
Contains(t, lit) == \E i \in 1..(Len(t) + 1) : StartsAt(t, i, lit)

\* str.replace(old, new): leftmost occurrences, not overlapping
RECURSIVE Replace(_, _, _)
Replace(t, old, new) ==
    IF t = <<>> THEN <<>>
    ELSE IF StartsWith(t, old) THEN new \o Replace(From(t, Len(old) + 1), old, new)
    ELSE <<Head(t)>> \o Replace(Tail(t), old, new)

\* the index of the first character at or after i that is not in S (Len(t)+1 if none)
RECURSIVE SkipSet(_, _, _)
SkipSet(t, i, S) == IF i <= Len(t) /\ t[i] \in S THEN SkipSet(t, i + 1, S) ELSE i

\* \b at the gap before position i
WordBoundary(t, i) ==
    LET before == i > 1 /\ i - 1 <= Len(t) /\ IsWord(t[i - 1])
        after == i >= 1 /\ i <= Len(t) /\ IsWord(t[i])
    IN before # after

RECURSIVE Concat(_)
Concat(ss) == IF ss = <<>> THEN <<>> ELSE Head(ss) \o Concat(Tail(ss))

(***************************************************************************)
(* Settings (src/app/config/settings.py) and literals of the formatter     *)
(***************************************************************************)
GOST_FONT_NAME == "Times New Roman"
GOST_FONT_SIZE == 14
GOST_LINE_SPACING == "1.5"
GOST_INDENT_CM == "1.25"
HeadingSize == 16
TableSize == 12

Dashes == {HY, EN, EM}

TitleMarkers ==
    {<<"S","O","D","E","R","ZH","A","N","I","E">>,
     <<"O","G","L","A","V","L","E","N","I","E">>}

MainHeadings ==
    {<<"S","O","D","E","R","ZH","A","N","I","E">>,
     <<"O","G","L","A","V","L","E","N","I","E">>,
     <<"V","V","E","D","E","N","I","E">>,
     <<"Z","A","K","L","YU","CH","E","N","I","E">>,
     <<"S","P","I","S","O","K"," ","I","S","P","O","L","Q","Z","O","V","A","N","N","Y","H"," ","I","S","T","O","CH","N","I","K","O","V">>,
     <<"B","I","B","L","I","O","G","R","A","F","I","CH","E","S","K","I","J"," ","S","P","I","S","O","K">>,
     <<"A","N","N","O","T","A","C","I","YA">>,
     <<"R","E","F","E","R","A","T">>,
     <<"P","R","I","L","O","ZH","E","N","I","E">>,
     <<"P","R","I","L","O","ZH","E","N","I","YA">>}

W_GLAVA == <<"G","L","A","V","A">>
W_Risunok == <<"R","i","s","u","n","o","k">>
W_Tablica == <<"T","a","b","l","i","c","a">>
W_BIBL == <<"B","I","B","L","I","O","G","R","A","F","I","CH","E","S","K","I","J">>
W_SPISOK_LIT == <<"S","P","I","S","O","K"," ","L","I","T","E","R","A","T","U","R","Y">>
W_PRILOZHENIE == <<"P","R","I","L","O","ZH","E","N","I","E">>

(***************************************************************************)
(* The document model (python-docx): items, paragraphs                     *)
(***************************************************************************)
\* a run as python-docx creates it: no font properties of its own
NewRun(text) == [text |-> text, link |-> FALSE, font |-> "orig", size |-> 0, bold |-> "orig"]

\* a paragraph as insert_paragraph_before(text) / add_paragraph(text) creates it
NewParagraph(text) ==
    [items |-> IF text = <<>> THEN <<>> ELSE <<NewRun(text)>>,
     img |-> FALSE, num |-> FALSE, align |-> "orig", first |-> "orig", left |-> "orig",
     before |-> "orig", after |-> "orig", line |-> "orig", pbb |-> FALSE, oid |-> 0]

\* paragraph.text: the text of the runs and of the hyperlinks, in order
ParaText(p) == Concat([i \in 1..Len(p.items) |-> p.items[i].text])

\* paragraph.runs: the items that are runs (a hyperlink is not a run), by item index
RECURSIVE RunIdxFrom(_, _)
RunIdxFrom(p, i) ==
    IF i > Len(p.items) THEN <<>>
    ELSE IF p.items[i].link THEN RunIdxFrom(p, i + 1)
    ELSE <<i>> \o RunIdxFrom(p, i + 1)

RunIdx(p) == RunIdxFrom(p, 1)
RunTexts(p) == LET ix == RunIdx(p) IN [k \in 1..Len(ix) |-> p.items[ix[k]].text]

\* the paragraph with the texts of its runs replaced by ts (one text per run)
SetRunTexts(p, ts) ==
    LET ix == RunIdx(p)
    IN [p EXCEPT !.items = [i \in 1..Len(p.items) |->
           IF p.items[i].link THEN p.items[i]
           ELSE [p.items[i] EXCEPT !.text = ts[CHOOSE k \in 1..Len(ix) : ix[k] = i]]]]

\* run.font.name / run.font.size / run.font.bold set on every run of the paragraph
SetRunFonts(p, size, bold) ==
    [p EXCEPT !.items = [i \in 1..Len(p.items) |->
        IF p.items[i].link THEN p.items[i]
        ELSE [p.items[i] EXCEPT !.font = GOST_FONT_NAME, !.size = size,
                                !.bold = IF bold = "keep" THEN @ ELSE bold]]]

HasImage(p) == p.img
IsListItem(p) == p.num
IsBlankText(p) == Strip(ParaText(p)) = <<>>

\* paragraph.clear(): every child but the paragraph properties goes, images and hyperlinks too
ClearParagraph(p) == [p EXCEPT !.items = <<>>, !.img = FALSE]

\* the paragraph sequence with position k (1-based) removed / with q inserted before position k
RemoveAt(d, k) == SubSeq(d, 1, k - 1) \o SubSeq(d, k + 1, Len(d))
InsertBefore(d, k, q) == SubSeq(d, 1, k - 1) \o <<q>> \o SubSeq(d, k, Len(d))

(***************************************************************************)
(* Classification predicates                                               *)
(***************************************************************************)
\* index (0-based) of the first paragraph whose text is a contents marker, else 0
RECURSIVE FindTitleFrom(_, _)
FindTitleFrom(d, k) ==
    IF k > Len(d) THEN 0
    ELSE IF Upper(Strip(ParaText(d[k]))) \in TitleMarkers THEN k - 1
    ELSE FindTitleFrom(d, k + 1)

FindTitlePageEnd(d) == FindTitleFrom(d, 1)

IsMainHeading(text) ==
    LET u == Upper(Strip(text))
        j == SkipSet(u, Len(W_GLAVA) + 1, WS)
    IN \/ u \in MainHeadings
       \/ StartsWith(u, W_GLAVA) /\ j > Len(W_GLAVA) + 1 /\ j <= Len(u) /\ u[j] \in Digits

IsSubheading(text) ==
    LET t == Strip(text)
        j == SkipSet(t, 1, Digits)
    IN j > 1 /\ j + 1 <= Len(t) /\ t[j] = DOT /\ t[j + 1] \in Digits

\* position of the dash of ^Risunok\s*\d*\s*[-en em] in t, 0 when t does not match
FigureDashPos(t) ==
    LET j == SkipSet(t, SkipSet(t, SkipSet(t, Len(W_Risunok) + 1, WS), Digits), WS)
    IN IF StartsAtCI(t, 1, W_Risunok) /\ j <= Len(t) /\ t[j] \in Dashes THEN j ELSE 0

IsFigureCaption(text) == FigureDashPos(Strip(text)) # 0

IsTableCaption(text) ==
    LET t == Strip(text)
        a == Len(W_Tablica) + 1
        b == SkipSet(t, a, WS)
        c == SkipSet(t, b, Digits)
        e == SkipSet(t, c, WS)
    IN StartsAtCI(t, 1, W_Tablica) /\ b > a /\ c > b /\ e <= Len(t) /\ t[e] \in Dashes

(***************************************************************************)
(* Figures: _process_figures, _fix_figure_caption_number,                  *)
(* _insert_figure_caption                                                  *)
(***************************************************************************)
DigitSeq == <<"0","1","2","3","4","5","6","7","8","9">>

\* str(n) of an f-string
RECURSIVE NumStr(_)
NumStr(n) == IF n < 10 THEN <<DigitSeq[n + 1]>> ELSE NumStr(n \div 10) \o <<DigitSeq[(n % 10) + 1]>>

\* the run paragraph.add_run(text) gives once font.name and font.size are set
StyledRun(text) == [NewRun(text) EXCEPT !.font = GOST_FONT_NAME, !.size = GOST_FONT_SIZE]

\* group(3) of ^(Risunok)\s*(\d*)\s*[-en em]\s*(.*)$ on the stripped text t
FigureDescription(t) == From(t, SkipSet(t, FigureDashPos(t) + 1, WS))

\* a caption text that leaves the dash out
FigureCaptionTextNoDash(prefix, n, description) == prefix \o <<SP>> \o NumStr(n) \o <<SP>> \o description

FigureCaptionText(prefix, n, description) == prefix \o <<SP>> \o NumStr(n) \o <<SP, EN, SP>> \o description

FixFigureCaptionNumber(p, correct_number) ==
    LET text == Strip(ParaText(p))
        description == FigureDescription(text)
        matched == FigureDashPos(text) # 0 /\ \A i \in 1..Len(description) : description[i] # NL
        new_text == FigureCaptionText(Upto(text, Len(W_Risunok)), correct_number, description)
    IN IF matched THEN [ClearParagraph(p) EXCEPT !.items = <<StyledRun(new_text)>>] ELSE p

InsertedCaption(figure_number) ==
    LET q == NewParagraph(FigureCaptionText(W_Risunok, figure_number, <<>>))
    IN SetRunFonts([q EXCEPT !.align = "center", !.first = "0", !.before = "0", !.after = "0",
                              !.line = GOST_LINE_SPACING], GOST_FONT_SIZE, "keep")

\* insert_index is 0-based, as in the code
InsertFigureCaption(d, insert_index, figure_number) ==
    IF insert_index < Len(d) THEN InsertBefore(d, insert_index + 1, InsertedCaption(figure_number))
    ELSE Append(d, InsertedCaption(figure_number))

\* the while loop of _process_figures from index i (0-based) with the counter at n;
\* the result is the document and the final counter
RECURSIVE FiguresLoop(_, _, _)
FiguresLoop(d, i, n) ==
    IF i >= Len(d) THEN [d |-> d, figure_number |-> n]
    ELSE IF ~HasImage(d[i + 1]) THEN FiguresLoop(d, i + 1, n)
    ELSE IF i + 1 >= Len(d) THEN FiguresLoop(d, i + 1, n + 1)
    ELSE IF IsFigureCaption(ParaText(d[i + 2]))
         THEN FiguresLoop([d EXCEPT ![i + 2] = FixFigureCaptionNumber(@, n + 1)], i + 1, n + 1)
         ELSE FiguresLoop(InsertFigureCaption(d, i + 1, n + 1), i + 1, n + 1)

ProcessFigures(d, t) == FiguresLoop(d, t, 0).d

(***************************************************************************)
(* Page breaks: _process_page_breaks, _add_page_break_before               *)
(***************************************************************************)
\* the paragraphs of d whose position (1-based) is not in S
RECURSIVE DropFrom(_, _, _)
DropFrom(d, k, S) ==
    IF k > Len(d) THEN <<>>
    ELSE IF k \in S THEN DropFrom(d, k + 1, S)
    ELSE <<d[k]>> \o DropFrom(d, k + 1, S)

Drop(d, S) == DropFrom(d, 1, S)

\* positions (1-based) of the main headings at index >= t
MainHeadingPositions(d, t) ==
    {k \in 1..Len(d) : k - 1 >= t /\ ~IsBlankText(d[k]) /\ IsMainHeading(ParaText(d[k]))}

\* a scan above the headings that would not stop at the boundary
BlankAboveHeadingInTitle(d, t) ==
    {j \in 1..Len(d) : \E h \in MainHeadingPositions(d, t) :
        j < h /\ \A m \in j..(h - 1) : IsBlankText(d[m])}

\* positions of the paragraphs without text directly above a main heading, down to index t
BlankAboveHeading(d, t) ==
    {j \in 1..Len(d) : j - 1 >= t /\ \E h \in MainHeadingPositions(d, t) :
        j < h /\ \A m \in j..(h - 1) : IsBlankText(d[m])}

AddPageBreakBefore(p) == [p EXCEPT !.pbb = TRUE]

ProcessPageBreaks(d, t) ==
    LET e == Drop(d, BlankAboveHeading(d, t))
    IN [k \in 1..Len(e) |-> IF k \in MainHeadingPositions(e, t) THEN AddPageBreakBefore(e[k]) ELSE e[k]]

(***************************************************************************)
(* Paragraph styles: _format_document_content and the five formatters      *)
(***************************************************************************)
ParagraphFormat(p, align, first) ==
    [p EXCEPT !.align = align, !.first = first, !.left = "0", !.before = "0", !.after = "0",
              !.line = GOST_LINE_SPACING]

FormatMainHeading(p) == SetRunFonts(ParagraphFormat(p, "center", "0"), HeadingSize, "yes")
FormatSubheading(p) == SetRunFonts(ParagraphFormat(p, "center", "0"), GOST_FONT_SIZE, "yes")
FormatCaption(p) == SetRunFonts(ParagraphFormat(p, "center", "0"), GOST_FONT_SIZE, "no")
FormatListItem(p) == SetRunFonts(ParagraphFormat(p, "justify", GOST_INDENT_CM), GOST_FONT_SIZE, "keep")
FormatRegularParagraph(p) == SetRunFonts(ParagraphFormat(p, "justify", GOST_INDENT_CM), GOST_FONT_SIZE, "keep")

FormatOne(p) ==
    LET text == Strip(ParaText(p))
    IN IF text = <<>> THEN p
       ELSE IF IsMainHeading(text) THEN FormatMainHeading(p)
       ELSE IF IsSubheading(text) THEN FormatSubheading(p)
       ELSE IF IsFigureCaption(text) \/ IsTableCaption(text) THEN FormatCaption(p)
       ELSE IF IsListItem(p) THEN FormatListItem(p)
       ELSE FormatRegularParagraph(p)

FormatDocumentContent(d, t) == [k \in 1..Len(d) |-> IF k - 1 < t THEN d[k] ELSE FormatOne(d[k])]

(***************************************************************************)
(* List punctuation: _fix_list_punctuation, _set_paragraph_ending          *)
(***************************************************************************)
IsBibliographyMarker(text) ==
    LET u == Upper(Strip(text)) IN Contains(u, W_BIBL) \/ Contains(u, W_SPISOK_LIT)

\* bibliography_start_idx (0-based); -1 stands for None
RECURSIVE BibliographyStartFrom(_, _)
BibliographyStartFrom(d, k) ==
    IF k > Len(d) THEN -1
    ELSE IF IsBibliographyMarker(ParaText(d[k])) THEN k - 1
    ELSE BibliographyStartFrom(d, k + 1)

BibliographyStart(d) == BibliographyStartFrom(d, 1)

\* "if bibliography_start_idx and i >= bibliography_start_idx": None and 0 are both falsy
InBibliography(d, i) == BibliographyStart(d) > 0 /\ i >= BibliographyStart(d)

\* list_items, as positions (1-based)
ListItemPositions(d, t) ==
    {k \in 1..Len(d) : k - 1 >= t /\ ~InBibliography(d, k - 1) /\ IsListItem(d[k]) /\ ~IsBlankText(d[k])}

\* is_continuation and (curr_idx - prev_idx) <= 3
IsContinuation(d, prevk, currk) ==
    /\ \A j \in (prevk + 1)..(currk - 1) : IsBlankText(d[j])
    /\ currk - prevk <= 3

\* the ending the item at position k gets: '.' for the last of its list, ';' otherwise
ListEnding(d, t, k) ==
    LET later == {m \in ListItemPositions(d, t) : m > k}
        next == CHOOSE m \in later : \A x \in later : m <= x
    IN IF later # {} /\ IsContinuation(d, k, next) THEN SEMI ELSE DOT

TerminalChars == {DOT, SEMI, COMMA, COL, EXCL}

HasHyperlink(p) == \E i \in 1..Len(p.items) : p.items[i].link

\* the item index of the last run whose text is not blank, 0 if none
LastTextRun(p) ==
    LET S == {i \in 1..Len(p.items) : ~p.items[i].link /\ Strip(p.items[i].text) # <<>>}
    IN IF S = {} THEN 0 ELSE CHOOSE i \in S : \A j \in S : j <= i

\* the run appended after a hyperlink: Times New Roman, sz = 28 half-points
EndingRun(ending) == [NewRun(<<ending>>) EXCEPT !.font = "Times New Roman", !.size = 14]

SetParagraphEnding(p, ending) ==
    LET text == RStrip(ParaText(p))
        last == LastTextRun(p)
        run_text == RStrip(p.items[last].text)
    IN IF text = <<>> \/ EndsWith(text, <<ending>>) THEN p
       ELSE IF HasHyperlink(p) THEN [p EXCEPT !.items = Append(@, EndingRun(ending))]
       ELSE IF last # 0
            THEN [p EXCEPT !.items[last].text =
                     IF run_text[Len(run_text)] \in TerminalChars
                     THEN Upto(run_text, Len(run_text) - 1) \o <<ending>>
                     ELSE run_text \o <<ending>>]
       ELSE [p EXCEPT !.items = Append(@, EndingRun(ending))]

FixListPunctuation(d, t) ==
    [k \in 1..Len(d) |->
        IF k \in ListItemPositions(d, t) THEN SetParagraphEnding(d[k], ListEnding(d, t, k)) ELSE d[k]]

(***************************************************************************)
(* Blank paragraphs: _remove_empty_paragraphs                              *)
(***************************************************************************)
IsRemovableBlank(p) == IsBlankText(p) /\ ~HasImage(p)

\* to_remove: the in-scope blanks that directly follow another in-scope blank
SurplusBlanks(d, t) ==
    {k \in 1..Len(d) : k - 1 >= t /\ IsRemovableBlank(d[k]) /\ k - 2 >= t /\ IsRemovableBlank(d[k - 1])}

RemoveEmptyParagraphs(d, t) == Drop(d, SurplusBlanks(d, t))

(***************************************************************************)
(* Table captions, bibliography, tables                                    *)
(***************************************************************************)
\* ^[Tt]ablica\s*(\d+)\s*[-en em]\s*(.+)$ on the stripped text: <<num, title>>, or <<>> if no match
TableCaptionMatch(t) ==
    LET a == Len(W_Tablica) + 1
        b == SkipSet(t, a, WS)
        c == SkipSet(t, b, Digits)
        e == SkipSet(t, c, WS)
        title == From(t, SkipSet(t, e + 1, WS))
    IN IF /\ StartsAt(t, 2, Tail(W_Tablica)) /\ t[1] \in {"T", "t"}
          /\ c > b /\ e <= Len(t) /\ t[e] \in Dashes
          /\ title # <<>> /\ \A i \in 1..Len(title) : title[i] # NL
       THEN <<SubSeq(t, b, c - 1), title>> ELSE <<>>

AddTableCaption(p) ==
    LET text == Strip(ParaText(p))
        m == TableCaptionMatch(text)
        new_text == W_Tablica \o <<SP>> \o m[1] \o <<SP, EN, SP>> \o m[2]
        q == IF m # <<>> /\ new_text # text
             THEN [ClearParagraph(p) EXCEPT !.items = <<StyledRun(new_text)>>] ELSE p
    IN IF StartsWith(Lower(text), Lower(W_Tablica)) THEN [q EXCEPT !.align = "left", !.first = "0"] ELSE p

\* every paragraph of the document: the function takes no title index
AddTableCaptions(d) == [k \in 1..Len(d) |-> AddTableCaption(d[k])]

FormatBibliographyEntry(p) ==
    SetRunFonts([p EXCEPT !.align = "justify", !.first = "0", !.left = "0", !.line = GOST_LINE_SPACING],
                GOST_FONT_SIZE, "keep")

\* the loop of _format_bibliography from position k with the flag in_bibliography
RECURSIVE BibliographyLoop(_, _, _)
BibliographyLoop(d, k, in_bibliography) ==
    IF k > Len(d) THEN d
    ELSE LET text == Strip(ParaText(d[k]))
             u == Upper(text)
         IN IF Contains(u, W_BIBL) \/ Contains(u, W_SPISOK_LIT) THEN BibliographyLoop(d, k + 1, TRUE)
            ELSE IF ~in_bibliography THEN BibliographyLoop(d, k + 1, FALSE)
            ELSE IF StartsWith(u, W_PRILOZHENIE) \/ StartsWith(u, W_GLAVA) THEN BibliographyLoop(d, k + 1, FALSE)
            ELSE IF text # <<>> /\ u # text
                 THEN BibliographyLoop([d EXCEPT ![k] = FormatBibliographyEntry(@)], k + 1, TRUE)
            ELSE BibliographyLoop(d, k + 1, TRUE)

FormatBibliography(d) == BibliographyLoop(d, 1, FALSE)

\* a table is the sequence of the paragraphs of its cells, row by row
MapCells(tbls, F(_)) == [i \in 1..Len(tbls) |-> [j \in 1..Len(tbls[i]) |-> F(tbls[i][j])]]

FormatTableParagraph(p) == SetRunFonts([p EXCEPT !.align = "left"], TableSize, "keep")

FormatTables(tbls) == MapCells(tbls, FormatTableParagraph)

(***************************************************************************)
(* re.sub: the leftmost match, then on from its end                        *)
(***************************************************************************)
\* t[i], or a character of no class when i is outside the text
At(t, i) == IF i >= 1 /\ i <= Len(t) THEN t[i] ELSE "none"

\* what a pattern does at a position: e = 0 for no match, else the match is
\* replaced by r and the scan goes on from position e
NoMatch == [e |-> 0, r |-> <<>>]

RECURSIVE SubFrom(_, _, _)
SubFrom(t, m, i) ==
    IF i > Len(t) THEN <<>>
    ELSE IF m[i].e # 0 THEN m[i].r \o SubFrom(t, m, m[i].e)
    ELSE <<t[i]>> \o SubFrom(t, m, i + 1)

ReSub(t, M(_, _)) == SubFrom(t, [i \in 1..Len(t) |-> M(t, i)], 1)

\* the position after \s+ from i, 0 when t[i] is no whitespace
AfterSpaces(t, i) == IF At(t, i) \in WS THEN SkipSet(t, i, WS) ELSE 0

(***************************************************************************)
(* Dashes: _fix_dashes.process_runs                                        *)
(***************************************************************************)
DashText(text) ==
    Replace(Replace(Replace(Replace(Replace(text,
        <<EM>>, <<EN>>),
        <<SP, HY, SP>>, <<SP, EN, SP>>),
        <<NBSP, HY, NBSP>>, <<SP, EN, SP>>),
        <<NBSP, HY, SP>>, <<SP, EN, SP>>),
        <<SP, HY, NBSP>>, <<SP, EN, SP>>)

\* the second loop: a run that is a lone hyphen
LoneDash(ts, i) ==
    LET text == ts[i]
        prev_ok == i > 1 /\ ts[i - 1] # <<>> /\ EndsWith(ts[i - 1], <<SP>>)
    IN IF text = <<>> THEN text
       ELSE IF Strip(text) = <<HY>>
            THEN IF prev_ok \/ text = <<HY, SP>> \/ text = <<SP, HY>> THEN Replace(text, <<HY>>, <<EN>>) ELSE text
       ELSE IF text = <<HY, SP>> THEN <<EN, SP>>
       ELSE IF text = <<SP, HY>> THEN <<SP, EN>>
       ELSE text

DashRuns(ts) ==
    LET a == [i \in 1..Len(ts) |-> DashText(ts[i])]
    IN [i \in 1..Len(ts) |-> LoneDash(a, i)]

(***************************************************************************)
(* Colons: _fix_colons                                                     *)
(***************************************************************************)
\* (:\s)([A-Z])([a-zA-Z]*) with lowercase_after_colon
ColonMatch(t, i) ==
    IF At(t, i) = COL /\ At(t, i + 1) \in WS /\ IsUpper(At(t, i + 2))
    THEN LET e == SkipSet(t, i + 3, UpperSet \cup LowerSet \cup {"latc"})
             rest == SubSeq(t, i + 3, e - 1)
             letter == IF rest # <<>> /\ IsUpper(rest[1]) THEN t[i + 2] ELSE LowerCh(t[i + 2])
         IN [e |-> e, r |-> <<t[i], t[i + 1], letter>> \o rest]
    ELSE NoMatch

ColonText(text) == ReSub(Replace(Replace(text, <<SP, COL>>, <<COL>>), <<NBSP, COL>>, <<COL>>), ColonMatch)

\* the second loop: the colon ends one run and the word begins the next
ColonBoundary(ts, i) ==
    LET next_text == ts[i]
        curr_text == ts[i - 1]
        stripped_next == LStrip(next_text)
        leading == Len(next_text) - Len(stripped_next)
    IN IF /\ i > 1 /\ curr_text # <<>> /\ next_text # <<>>
          /\ EndsWith(RStrip(curr_text), <<COL>>)
          /\ stripped_next # <<>> /\ IsUpper(stripped_next[1])
          /\ Len(stripped_next) > 1 /\ ~IsUpper(stripped_next[2])
       THEN Upto(next_text, leading) \o <<LowerCh(stripped_next[1])>> \o Tail(stripped_next)
       ELSE next_text

ColonRuns(ts) ==
    LET a == [i \in 1..Len(ts) |-> ColonText(ts[i])]
    IN [i \in 1..Len(ts) |-> ColonBoundary(a, i)]

(***************************************************************************)
(* Spaces: _fix_multiple_spaces.process_paragraph                          *)
(***************************************************************************)
\* re.sub(' {2,}', ' ', text)
RECURSIVE CollapseSpaces(_)
CollapseSpaces(t) ==
    IF t = <<>> THEN <<>>
    ELSE IF Head(t) = SP THEN <<SP>> \o CollapseSpaces(LStripSet(t, {SP}))
    ELSE <<Head(t)>> \o CollapseSpaces(Tail(t))

\* the second loop, from the last run down: the run before is read as the first loop left it
SpaceBoundary(ts, i) ==
    LET curr == ts[i]
        prev_text == ts[i - 1]
        c1 == IF EndsWith(prev_text, <<SP>>) /\ StartsWith(curr, <<SP>>) THEN LStripSet(curr, {SP}) ELSE curr
    IN IF i = 1 \/ curr = <<>> \/ prev_text = <<>> THEN curr
       ELSE IF Strip(c1) = <<>> /\ EndsWith(prev_text, <<SP>>) THEN <<>>
       ELSE c1

SpaceRuns(ts) ==
    LET a == [i \in 1..Len(ts) |-> CollapseSpaces(ts[i])]
    IN [i \in 1..Len(ts) |-> SpaceBoundary(a, i)]

(***************************************************************************)
(* Quotes: _fix_quotes.process_text                                        *)
(***************************************************************************)
\* the glyphs of the test "char in ...": the straight double quote, the low quote, the apostrophe
QuoteGlyphs == {DQ, LOWQ, APOS}
OpeningContext == {SP, TAB, NL, LPAR, LBRK, LG}

QuoteChar(text, i) ==
    IF text[i] \in QuoteGlyphs
    THEN IF i = 1 \/ text[i - 1] \in OpeningContext THEN LG ELSE RG
    ELSE text[i]

QuoteText(text) == [i \in 1..Len(text) |-> QuoteChar(text, i)]

QuoteRuns(ts) == [i \in 1..Len(ts) |-> QuoteText(ts[i])]

(***************************************************************************)
(* Non-breaking spaces: _fix_non_breaking_spaces.process_text              *)
(***************************************************************************)
AbbrevHeads ==
    {<<"r","i","s">>, <<"t","a","b","l">>, <<"g","l">>, <<"s","t","r">>, <<"s","m">>, <<"p">>, <<"p","p">>,
     <<"g">>, <<"g","g">>, <<"d","r">>, <<"r","u","b">>, <<"k","o","p">>, <<"t","y","s">>, <<"m","l","n">>,
     <<"m","l","r","d">>}

Units ==
    {<<"k","g">>, <<"g">>, <<"m","g">>, <<"t">>, <<"k","m">>, <<"m">>, <<"s","m">>, <<"m","m">>, <<"l">>,
     <<"m","l">>, <<"sh","t">>, <<"ch">>, <<"m","i","n">>, <<"s","e","k">>, <<"s">>, <<"r","u","b">>,
     <<"k","o","p">>, <<"%">>, <<"deg","latC">>, <<"K">>, <<"V","t">>, <<"k","V","t">>, <<"V">>, <<"A">>,
     <<"G","c">>, <<"b","a","j","t">>, <<"K","b">>, <<"M","b">>, <<"G","b">>, <<"T","b">>}

Months ==
    {<<"ya","n","v","a","r","ya">>, <<"f","e","v","r","a","l","ya">>, <<"m","a","r","t","a">>,
     <<"a","p","r","e","l","ya">>, <<"m","a","ya">>, <<"i","yu","n","ya">>, <<"i","yu","l","ya">>,
     <<"a","v","g","u","s","t","a">>, <<"s","e","n","t","ya","b","r","ya">>, <<"o","k","t","ya","b","r","ya">>,
     <<"n","o","ya","b","r","ya">>, <<"d","e","k","a","b","r","ya">>}

LowerClass == LowerSet \cup {"latc"}

\* ([No sect])\s+
SymbolMatch(t, i) ==
    IF t[i] \in {NUMERO, SECT} /\ AfterSpaces(t, i + 1) # 0
    THEN [e |-> AfterSpaces(t, i + 1), r |-> <<t[i], NBSP>>] ELSE NoMatch

\* \b(ris|tabl|...)\.\s+ under IGNORECASE
AbbrevHeadMatch(t, i) ==
    LET H == {h \in AbbrevHeads : /\ StartsAtCI(t, i, h) /\ At(t, i + Len(h)) = DOT
                                  /\ AfterSpaces(t, i + Len(h) + 1) # 0}
        h == CHOOSE x \in H : TRUE
    IN IF WordBoundary(t, i) /\ H # {}
       THEN [e |-> AfterSpaces(t, i + Len(h) + 1), r |-> SubSeq(t, i, i + Len(h)) \o <<NBSP>>]
       ELSE NoMatch

\* ([A-Z])\.\s+([A-Z])\.\s+([A-Z])
Initials3Match(t, i) ==
    LET j == AfterSpaces(t, i + 2)
        k == AfterSpaces(t, j + 2)
    IN IF /\ IsUpper(t[i]) /\ At(t, i + 1) = DOT /\ j # 0 /\ IsUpper(At(t, j)) /\ At(t, j + 1) = DOT
          /\ k # 0 /\ IsUpper(At(t, k))
       THEN [e |-> k + 1, r |-> <<t[i], DOT, NBSP, t[j], DOT, NBSP, t[k]>>] ELSE NoMatch

\* ([A-Z])\.\s+([A-Z][a-z])
Initials2Match(t, i) ==
    LET j == AfterSpaces(t, i + 2)
    IN IF /\ IsUpper(t[i]) /\ At(t, i + 1) = DOT /\ j # 0 /\ IsUpper(At(t, j)) /\ At(t, j + 1) \in LowerClass
       THEN [e |-> j + 2, r |-> <<t[i], DOT, NBSP, t[j], t[j + 1]>>] ELSE NoMatch

\* (\d)\s+(kg|g|...)\b
UnitMatch(t, i) ==
    LET j == AfterSpaces(t, i + 1)
        U == {u \in Units : StartsAt(t, j, u) /\ WordBoundary(t, j + Len(u))}
        u == CHOOSE x \in U : TRUE
    IN IF t[i] \in Digits /\ j # 0 /\ U # {}
       THEN [e |-> j + Len(u), r |-> <<t[i], NBSP>> \o u] ELSE NoMatch

\* (\d{4})\s+(g|gg)\.
YearMatch(t, i) ==
    LET j == AfterSpaces(t, i + 4)
        n == IF At(t, j + 1) = "g" THEN 2 ELSE 1
    IN IF /\ \A x \in 0..3 : At(t, i + x) \in Digits
          /\ j # 0 /\ At(t, j) = "g" /\ At(t, j + n) = DOT
       THEN [e |-> j + n + 1, r |-> SubSeq(t, i, i + 3) \o <<NBSP>> \o SubSeq(t, j, j + n)] ELSE NoMatch

\* (\d{1,2})\s+(yanvarya|...) under IGNORECASE
DateMatch(t, i) ==
    LET n == IF At(t, i + 1) \in Digits THEN 2 ELSE 1
        j == AfterSpaces(t, i + n)
        M == {m \in Months : StartsAtCI(t, j, m)}
        m == CHOOSE x \in M : TRUE
    IN IF t[i] \in Digits /\ j # 0 /\ M # {}
       THEN [e |-> j + Len(m), r |-> SubSeq(t, i, i + n - 1) \o <<NBSP>> \o SubSeq(t, j, j + Len(m) - 1)]
       ELSE NoMatch

NbspText(text) ==
    ReSub(ReSub(ReSub(ReSub(ReSub(ReSub(ReSub(text,
        SymbolMatch), AbbrevHeadMatch), Initials3Match), Initials2Match), UnitMatch), YearMatch), DateMatch)

NbspRuns(ts) == [i \in 1..Len(ts) |-> NbspText(ts[i])]

(***************************************************************************)
(* Abbreviations: _fix_abbreviations.process_text                          *)
(***************************************************************************)
W_tak_kak == <<"t","a","k"," ","k","a","k">>
W_to_est == <<"t","o"," ","e","s","t","q">>
W_i_tak_dalee == <<"i"," ","t","a","k"," ","d","a","l","e","e">>
W_i_tomu_podobnoe == <<"i"," ","t","o","m","u"," ","p","o","d","o","b","n","o","e">>
W_i_drugie == <<"i"," ","d","r","u","g","i","e">>

\* the position after t\.\s*<letter>\. from i under IGNORECASE, 0 when it does not match
AfterTDot(t, i, letter) ==
    LET k == SkipSet(t, i + 2, WS)
    IN IF /\ LowerCh(At(t, i)) = "t" /\ At(t, i + 1) = DOT
          /\ LowerCh(At(t, k)) = letter /\ At(t, k + 1) = DOT
       THEN k + 2 ELSE 0

\* (?<![,A-Z])\s+t\.\s*<letter>\. under IGNORECASE: the class of the lookbehind holds
\* the letters of both cases
GuardedMatch(t, i, letter, repl) ==
    LET j == AfterSpaces(t, i)
    IN IF /\ ~(At(t, i - 1) = COMMA \/ IsAlpha(At(t, i - 1)))
          /\ j # 0 /\ AfterTDot(t, j, letter) # 0
       THEN [e |-> AfterTDot(t, j, letter), r |-> <<SP>> \o repl] ELSE NoMatch

TkMatch(t, i) == GuardedMatch(t, i, "k", W_tak_kak)
TeMatch(t, i) == GuardedMatch(t, i, "e", W_to_est)

\* ^t\.\s*<letter>\.
AtStart(t, letter, repl) == IF AfterTDot(t, 1, letter) # 0 THEN repl \o From(t, AfterTDot(t, 1, letter)) ELSE t

\* \bi\s+t\.\s*<letter>\.
AndSoOnMatch(t, i, letter, repl) ==
    LET j == AfterSpaces(t, i + 1)
    IN IF /\ LowerCh(t[i]) = "i" /\ WordBoundary(t, i) /\ j # 0 /\ AfterTDot(t, j, letter) # 0
       THEN [e |-> AfterTDot(t, j, letter), r |-> repl] ELSE NoMatch

TdMatch(t, i) == AndSoOnMatch(t, i, "d", W_i_tak_dalee)
TpMatch(t, i) == AndSoOnMatch(t, i, "p", W_i_tomu_podobnoe)

\* \bi\s+dr\.
DrMatch(t, i) ==
    LET j == AfterSpaces(t, i + 1)
    IN IF /\ LowerCh(t[i]) = "i" /\ WordBoundary(t, i) /\ j # 0
          /\ StartsAtCI(t, j, <<"d", "r">>) /\ At(t, j + 2) = DOT
       THEN [e |-> j + 3, r |-> W_i_drugie] ELSE NoMatch

AbbrevText(text) ==
    ReSub(ReSub(ReSub(AtStart(ReSub(AtStart(ReSub(text,
        TkMatch), "k", W_tak_kak), TeMatch), "e", W_to_est), TdMatch), TpMatch), DrMatch)

AbbrevRuns(ts) == [i \in 1..Len(ts) |-> AbbrevText(ts[i])]

(***************************************************************************)
(* The passes over the document: paragraphs from the title index on, and   *)
(* every paragraph of every table cell                                     *)
(***************************************************************************)
ApplyRuns(p, F(_)) == SetRunTexts(p, F(RunTexts(p)))

DocPass(d, t, F(_)) == [k \in 1..Len(d) |-> IF k - 1 < t THEN d[k] ELSE ApplyRuns(d[k], F)]

FixDashesPara(p) == ApplyRuns(p, DashRuns)
FixColonsPara(p) == ApplyRuns(p, ColonRuns)
FixSpacesPara(p) == ApplyRuns(p, SpaceRuns)
FixQuotesPara(p) == ApplyRuns(p, QuoteRuns)
FixNbspPara(p) == ApplyRuns(p, NbspRuns)
FixAbbrevPara(p) == ApplyRuns(p, AbbrevRuns)

FixDashes(d, t) == DocPass(d, t, DashRuns)
FixColons(d, t) == DocPass(d, t, ColonRuns)
FixMultipleSpaces(d, t) == DocPass(d, t, SpaceRuns)
FixQuotes(d, t) == DocPass(d, t, QuoteRuns)
FixNonBreakingSpaces(d, t) == DocPass(d, t, NbspRuns)
\* _fix_abbreviations walks the runs of the paragraphs and of the cells alike
FixAbbreviations(d, t) == DocPass(d, t, AbbrevRuns)

(***************************************************************************)
(* format_document as a state machine: one step per stage                  *)
(***************************************************************************)
MaxInvocations == 2

\* the local variables of _process_figures while format_document is not inside its loop
NoScan == [i |-> 0, figure_number |-> 0]

\* handle_document is not running: format_document is called on its own
NoHandler ==
    [pc |-> "idle", file_name |-> <<>>, input_path |-> "None", output_path |-> "None",
     files |-> {}, locked |-> {}, replies |-> <<>>, processing_msg |-> "none",
     paths |-> <<>>, attempted |-> <<>>, raised |-> FALSE]

StageOrder ==
    <<"figures", "page_breaks", "content", "list_punctuation", "dashes", "colons", "spaces", "quotes",
      "nbsp", "tables", "table_captions", "abbreviations", "bibliography", "empty", "save">>

StageNames == {StageOrder[i] : i \in 1..Len(StageOrder)}

NextStage(s) == StageOrder[(CHOOSE i \in 1..Len(StageOrder) : StageOrder[i] = s) + 1]

\* a stage that returns: the document goes on to the next stage
Stage(name, d, tbls) ==
    /\ pc = name
    /\ pc' = NextStage(name)
    /\ prev' = doc
    /\ lastPass' = name
    /\ doc' = d
    /\ tables' = tbls
    /\ done' = Append(done, name)
    /\ UNCHANGED <<scan, handler, title_end_idx, result, saved, exists, invocation, doc0, out1>>

\* os.path.exists(input_file) is false: return False
MissingInput ==
    /\ pc = "call" /\ ~exists
    /\ pc' = "returned" /\ result' = "False"
    /\ UNCHANGED <<scan, handler, doc, tables, title_end_idx, saved, exists, invocation, doc0, out1, prev, lastPass, done>>

\* Document(input_file) and _find_title_page_end
Load ==
    /\ pc = "call" /\ exists
    /\ pc' = "figures"
    /\ title_end_idx' = FindTitlePageEnd(doc)
    /\ doc0' = doc
    /\ prev' = doc
    /\ lastPass' = "load"
    /\ done' = <<>>
    /\ UNCHANGED <<scan, handler, doc, tables, result, saved, exists, invocation, out1>>

DoProcessFigures == Stage("figures", ProcessFigures(doc, title_end_idx), tables)
DoProcessPageBreaks == Stage("page_breaks", ProcessPageBreaks(doc, title_end_idx), tables)
DoFormatDocumentContent == Stage("content", FormatDocumentContent(doc, title_end_idx), tables)
DoFixListPunctuation == Stage("list_punctuation", FixListPunctuation(doc, title_end_idx), tables)
DoFixDashes == Stage("dashes", FixDashes(doc, title_end_idx), MapCells(tables, FixDashesPara))
DoFixColons == Stage("colons", FixColons(doc, title_end_idx), MapCells(tables, FixColonsPara))
DoFixMultipleSpaces == Stage("spaces", FixMultipleSpaces(doc, title_end_idx), MapCells(tables, FixSpacesPara))
DoFixQuotes == Stage("quotes", FixQuotes(doc, title_end_idx), MapCells(tables, FixQuotesPara))
DoFixNonBreakingSpaces == Stage("nbsp", FixNonBreakingSpaces(doc, title_end_idx), MapCells(tables, FixNbspPara))
DoFormatTables == Stage("tables", doc, FormatTables(tables))
DoAddTableCaptions == Stage("table_captions", AddTableCaptions(doc), tables)
DoFixAbbreviations == Stage("abbreviations", FixAbbreviations(doc, title_end_idx), MapCells(tables, FixAbbrevPara))
DoFormatBibliography == Stage("bibliography", FormatBibliography(doc), tables)
DoRemoveEmptyParagraphs == Stage("empty", RemoveEmptyParagraphs(doc, title_end_idx), tables)

\* doc.save(output_file), then return True
Save ==
    /\ pc = "save"
    /\ pc' = "returned" /\ result' = "True"
    /\ saved' = saved + 1
    /\ lastPass' = "save"
    /\ UNCHANGED <<scan, handler, doc, tables, title_end_idx, exists, invocation, doc0, out1, prev, done>>

\* an except clause that would write the half-processed document before returning False
FaultAfterWrite ==
    /\ pc \in StageNames
    /\ pc' = "returned" /\ result' = "False"
    /\ saved' = saved + 1
    /\ doc' = <<>> /\ tables' = <<>> /\ prev' = <<>>
    /\ lastPass' = pc
    /\ UNCHANGED <<scan, handler, title_end_idx, exists, invocation, doc0, out1, done>>

\* an exception out of a stage or out of doc.save: the except clause returns False;
\* the Document object of the call is gone with it
Fault ==
    /\ pc \in StageNames
    /\ pc' = "returned" /\ result' = "False"
    /\ doc' = <<>> /\ tables' = <<>> /\ prev' = <<>>
    /\ lastPass' = pc
    /\ UNCHANGED <<scan, handler, title_end_idx, saved, exists, invocation, doc0, out1, done>>

\* the file written by one call is handed to format_document again
Resubmit ==
    /\ pc = "returned" /\ result = "True" /\ invocation < MaxInvocations
    /\ pc' = "call" /\ result' = "none" /\ saved' = 0
    /\ invocation' = invocation + 1
    /\ out1' = [doc |-> doc, tables |-> tables]
    /\ prev' = doc
    /\ lastPass' = "none"
    /\ done' = <<>>
    /\ UNCHANGED <<scan, handler, doc, tables, title_end_idx, exists, doc0>>

Next ==
    \/ MissingInput
    \/ Load
    \/ DoProcessFigures
    \/ DoProcessPageBreaks
    \/ DoFormatDocumentContent
    \/ DoFixListPunctuation
    \/ DoFixDashes
    \/ DoFixColons
    \/ DoFixMultipleSpaces
    \/ DoFixQuotes
    \/ DoFixNonBreakingSpaces
    \/ DoFormatTables
    \/ DoAddTableCaptions
    \/ DoFixAbbreviations
    \/ DoFormatBibliography
    \/ DoRemoveEmptyParagraphs
    \/ Save
    \/ Fault
    \/ Resubmit

(***************************************************************************)
(* Input documents                                                         *)
(***************************************************************************)
MaxParas == 3

\* a paragraph of the input file: runs with the given texts, the items whose
\* index is in links being hyperlinks
InputPara(texts, img, num, links) ==
    [NewParagraph(<<>>) EXCEPT
        !.items = [i \in 1..Len(texts) |-> [NewRun(texts[i]) EXCEPT !.link = (i \in links)]],
        !.img = img, !.num = num]

Plain(text) == InputPara(<<text>>, FALSE, FALSE, {})
ListItem(text) == InputPara(<<text>>, FALSE, TRUE, {})

\* the documents of 1..n paragraphs over a pool; oid numbers the paragraphs of the input
DocsOver(pool, n) ==
    {[k \in 1..Len(d) |-> [d[k] EXCEPT !.oid = k]] : d \in UNION {[1..m -> pool] : m \in 1..n}}

T_caption5 == <<"R","i","s","u","n","o","k"," ","5"," ","-"," ","a">>
T_captionLower == <<"r","i","s","u","n","o","k","em"," ","b">>
T_captionNoNumber == <<"R","i","s","u","n","o","k"," ","-"," ","v">>
T_etc == <<"a"," ","i"," ","t",".","d",".">>
T_table == <<"T","a","b","l","i","c","a"," ","1"," ","-"," ","a">>
T_colon == <<"a"," "," ",":">>
T_contents == <<"S","O","D","E","R","ZH","A","N","I","E">>
T_intro == <<"V","V","E","D","E","N","I","E">>

Blank == InputPara(<<>>, FALSE, FALSE, {})
Image == InputPara(<<>>, TRUE, FALSE, {})

\* figures, captions, blanks, a heading, the contents marker and a table caption
FigurePool ==
    {Blank, Image, InputPara(<<T_captionNoNumber>>, TRUE, FALSE, {}), Plain(T_caption5), Plain(T_captionLower),
     Plain(<<"a">>), Plain(T_contents), Plain(T_intro), Plain(T_table)}

\* lists, the contents marker, a table caption, the bibliography marker, text
GeneralPool ==
    {Blank, Image, Plain(T_caption5), Plain(T_contents), ListItem(T_contents), ListItem(T_etc),
     ListItem(<<"b">>), Plain(T_table), Plain(W_SPISOK_LIT), Plain(T_colon)}

TablePool == {<<>>, <<<<Plain(T_colon)>>>>}

InitPipeline(docs, tablePool) ==
    /\ doc \in docs
    /\ tables \in tablePool
    /\ pc = "call"
    /\ title_end_idx = 0
    /\ result = "none"
    /\ saved = 0
    /\ exists \in BOOLEAN
    /\ invocation = 1
    /\ doc0 = doc
    /\ out1 = [doc |-> <<>>, tables |-> <<>>]
    /\ prev = doc
    /\ lastPass = "none"
    /\ done = <<>>
    /\ scan = NoScan
    /\ handler = NoHandler

Init == InitPipeline(DocsOver(GeneralPool, MaxParas), TablePool)
Spec == Init /\ [][Next]_vars

InitFigures == InitPipeline(DocsOver(FigurePool, MaxParas), {<<>>})
SpecFigures == InitFigures /\ [][Next]_vars

(***************************************************************************)
(* _fix_list_first_letter: defined in the module, called by no stage of    *)
(* format_document                                                         *)
(***************************************************************************)
\* the text of a run with its first letter made lower-case, unless the
\* character after that letter is a capital too
FirstLetterLower(text) ==
    LET L == {i \in 1..Len(text) : IsAlpha(text[i])}
        first_letter_idx == CHOOSE i \in L : \A x \in L : i <= x
    IN IF L = {} \/ ~IsUpper(text[first_letter_idx]) THEN text
       ELSE IF first_letter_idx < Len(text) /\ IsUpper(text[first_letter_idx + 1]) THEN text
       ELSE [text EXCEPT ![first_letter_idx] = LowerCh(@)]

FixListFirstLetterPara(p) ==
    LET ts == RunTexts(p)
        S == {r \in 1..Len(ts) : Strip(ts[r]) # <<>>}
        first == CHOOSE r \in S : \A x \in S : r <= x
    IN IF S = {} THEN p ELSE SetRunTexts(p, [ts EXCEPT ![first] = FirstLetterLower(@)])

FixListFirstLetter(d, t) ==
    [k \in 1..Len(d) |-> IF k - 1 >= t /\ IsListItem(d[k]) THEN FixListFirstLetterPara(d[k]) ELSE d[k]]

(***************************************************************************)
(* Passes applied on their own, and applied again to their own output      *)
(***************************************************************************)
NormalizerPasses == {"dashes", "colons", "spaces", "quotes", "nbsp", "abbreviations"}

\* the six text passes in the order format_document calls them
Normalize(d, t) ==
    FixAbbreviations(FixNonBreakingSpaces(FixQuotes(FixMultipleSpaces(FixColons(FixDashes(d, t), t), t), t), t), t)

\* the structural stages in the order format_document calls them
Structural(d, t) == RemoveEmptyParagraphs(AddTableCaptions(ProcessPageBreaks(ProcessFigures(d, t), t)), t)

PassDoc(name, d, t) ==
    CASE name = "dashes" -> FixDashes(d, t)
      [] name = "colons" -> FixColons(d, t)
      [] name = "spaces" -> FixMultipleSpaces(d, t)
      [] name = "quotes" -> FixQuotes(d, t)
      [] name = "nbsp" -> FixNonBreakingSpaces(d, t)
      [] name = "abbreviations" -> FixAbbreviations(d, t)
      [] name = "normalize" -> Normalize(d, t)
      [] name = "structural" -> Structural(d, t)

\* one call of a pass on a loaded document
ApplyPass(name) ==
    /\ pc = "norm"
    /\ pc' = "once"
    /\ title_end_idx' = FindTitlePageEnd(doc)
    /\ prev' = doc
    /\ doc' = PassDoc(name, doc, title_end_idx')
    /\ lastPass' = name
    /\ done' = <<name>>
    /\ UNCHANGED <<scan, handler, tables, result, saved, exists, invocation, doc0, out1>>

\* the same pass called again on what it produced
ApplyAgain ==
    /\ pc = "once"
    /\ pc' = "twice"
    /\ prev' = doc
    /\ doc' = PassDoc(lastPass, doc, title_end_idx)
    /\ done' = Append(done, lastPass)
    /\ UNCHANGED <<scan, handler, tables, title_end_idx, result, saved, exists, invocation, doc0, out1, lastPass>>

MaxLen == 3
MaxRuns == 2

PassAlphabet == {"a", SP, HY, COL, DQ}

T_twoDashes == <<"a", SP, HY, SP, HY, SP, "b">>
T_quoted == <<"a", SP, DQ, "b", DQ>>
T_because == <<"o", "n", SP, "t", DOT, "k", DOT, SP, "a">>

SampleTexts == {T_twoDashes, T_colon, T_quoted, T_because, T_etc}

Texts == UNION {[1..m -> PassAlphabet] : m \in 0..MaxLen} \cup SampleTexts

\* the ways to cut a text into MaxRuns runs, empty runs included
Cuts(text) ==
    {c \in [1..(MaxRuns - 1) -> 0..Len(text)] : \A i \in 1..(MaxRuns - 2) : c[i] <= c[i + 1]}

SplitRuns(text, c) ==
    [i \in 1..MaxRuns |->
        SubSeq(text, (IF i = 1 THEN 0 ELSE c[i - 1]) + 1, IF i = MaxRuns THEN Len(text) ELSE c[i])]

\* a paragraph of plain text, then one text cut into runs, then the same text
\* in a single run
PassDocs ==
    UNION {{<<[Plain(<<"a">>) EXCEPT !.oid = 1],
              [InputPara(SplitRuns(text, c), FALSE, FALSE, {}) EXCEPT !.oid = 2],
              [Plain(text) EXCEPT !.oid = 3]>> : c \in Cuts(text)} : text \in Texts}

InitPass ==
    /\ doc \in PassDocs
    /\ tables = <<>>
    /\ pc = "norm"
    /\ title_end_idx = 0
    /\ result = "none"
    /\ saved = 0
    /\ exists = TRUE
    /\ invocation = 1
    /\ doc0 = doc
    /\ out1 = [doc |-> <<>>, tables |-> <<>>]
    /\ prev = doc
    /\ lastPass = "none"
    /\ done = <<>>
    /\ scan = NoScan
    /\ handler = NoHandler

NextPass ==
    \/ \E name \in NormalizerPasses \cup {"normalize"} : ApplyPass(name)
    \/ ApplyAgain

SpecPass == InitPass /\ [][NextPass]_vars

InitStructural ==
    /\ doc \in DocsOver(FigurePool, MaxParas)
    /\ tables = <<>>
    /\ pc = "norm"
    /\ title_end_idx = 0
    /\ result = "none"
    /\ saved = 0
    /\ exists = TRUE
    /\ invocation = 1
    /\ doc0 = doc
    /\ out1 = [doc |-> <<>>, tables |-> <<>>]
    /\ prev = doc
    /\ lastPass = "none"
    /\ done = <<>>
    /\ scan = NoScan
    /\ handler = NoHandler

NextStructural ==
    \/ ApplyPass("structural")
    \/ ApplyAgain

SpecStructural == InitStructural /\ [][NextStructural]_vars

(***************************************************************************)
(* Documents of headings, blanks, dashes and list items                    *)
(***************************************************************************)
T_numbered == <<"1", SP, "A", "b">>
T_appendixA == W_PRILOZHENIE \o <<SP, "A">>
T_biblTwoSpaces == W_BIBL \o <<SP, SP, "S", "P", "I", "S", "O", "K">>
T_emDash == <<"a", SP, SP, EM, SP, SP, "b">>

BodyPool ==
    {Blank, Plain(<<"a">>), Plain(T_intro), Plain(T_appendixA), Plain(T_numbered), Plain(T_biblTwoSpaces),
     Plain(T_twoDashes), Plain(T_emDash), ListItem(<<"A", "b">>)}

InitBody == InitPipeline(DocsOver(BodyPool, MaxParas), {<<>>, <<<<Plain(T_emDash)>>>>})
SpecBody == InitBody /\ [][Next]_vars

(***************************************************************************)
(* Properties                                                              *)
(***************************************************************************)
\* the call has loaded the document and has not lost it to an exception
Loaded == pc \in StageNames \/ (pc = "returned" /\ result = "True")

\* format_document has returned True for the first time
Formatted == pc = "returned" /\ result = "True" /\ invocation = 1

\* format_document has returned True on the file it wrote itself
Reformatted == pc = "returned" /\ result = "True" /\ invocation = 2

\* C1: title invariance.  With the boundary found on load, every paragraph
\* whose index is below the boundary is, at every stage and in the document
\* that is saved, exactly what it was on load (text, runs, alignment,
\* indents, spacing): no stage writes to it.
TitleInvariance ==
    Loaded => \A i \in 1..title_end_idx : i <= Len(doc) /\ doc[i] = doc0[i]

\* C2: full-pipeline idempotence.  Formatting the document format_document
\* wrote gives the same document again: the same paragraphs, run texts and
\* styles, in the body and in the tables.
PipelineIdempotence ==
    Reformatted => doc = out1.doc /\ tables = out1.tables

\* C3: per-pass idempotence.  Each text pass taken alone, applied a second
\* time to the runs it produced, changes no run text.
PassIdempotence ==
    (pc = "twice" /\ lastPass \in NormalizerPasses) =>
        \A i \in 1..Len(doc) : RunTexts(doc[i]) = RunTexts(prev[i])

\* C4: run-split invariance.  A text cut into runs and the same text in one
\* run have the same logical text after the normalizer passes.
RunSplitInvariance ==
    (pc = "once" /\ lastPass = "normalize") => ParaText(doc[2]) = ParaText(doc[3])

Stages == SubSeq(StageOrder, 1, Len(StageOrder) - 1)

\* C5: failure atomicity.  The document is saved at most once, and only
\* after every stage has completed; a call that finds no input file returns
\* False with no stage run; a call in which a stage raised returns False and
\* has saved nothing; True is returned only when the save has been done.
FailureAtomicity ==
    /\ saved \in {0, 1}
    /\ saved = 1 => done = Stages /\ result = "True"
    /\ result = "True" => saved = 1
    /\ result = "False" => saved = 0
    /\ (pc = "returned" /\ ~exists) => result = "False" /\ done = <<>> /\ doc = doc0

\* a stage in the middle of the pipeline raised and the call returned False
StageRaised ==
    /\ pc = "returned" /\ result = "False" /\ exists
    /\ lastPass = "quotes" /\ Len(done) = 7
    /\ saved = 0

\* the paragraphs of d at index >= t that hold an image, up to position i
ImagesUpTo(d, t, i) == {j \in 1..i : j - 1 >= t /\ HasImage(d[j])}

\* C6: figure caption renumbering.  When the k-th image-bearing paragraph at
\* index >= boundary is followed by a paragraph that matches the caption
\* pattern, that paragraph reads 'Risunok k <en dash> <original description>'
\* after caption reconciliation, whatever number and dash it had before.
CaptionRenumbering ==
    (pc = "page_breaks" /\ invocation = 1) =>
        \A i \in 1..(Len(prev) - 1) :
            (i - 1 >= title_end_idx /\ HasImage(prev[i]) /\ IsFigureCaption(ParaText(prev[i + 1]))) =>
                \E m \in 1..Len(doc) :
                    /\ doc[m].oid = prev[i + 1].oid
                    /\ ParaText(doc[m]) =
                          FigureCaptionText(W_Risunok, Cardinality(ImagesUpTo(prev, title_end_idx, i)),
                                            FigureDescription(Strip(ParaText(prev[i + 1]))))

\* C7: missing-caption insertion.  After caption reconciliation every
\* image-bearing paragraph at index >= boundary is immediately followed by a
\* figure-caption paragraph, the last paragraph of the document included.
CaptionAfterEveryImage ==
    pc = "page_breaks" =>
        \A i \in 1..Len(doc) :
            (i - 1 >= title_end_idx /\ HasImage(doc[i])) =>
                i < Len(doc) /\ IsFigureCaption(ParaText(doc[i + 1]))

Captions(d) == {i \in 1..Len(d) : IsFigureCaption(ParaText(d[i]))}

LastChar(p) == LET text == RStrip(ParaText(p)) IN text[Len(text)]

\* C9: list punctuation in the saved document.  In every list outside the
\* title page and the bibliography each item but the last ends with ';' and
\* the last (or only) item ends with '.', also when a later pass has
\* rewritten the end of the item.
ListPunctuation ==
    (Formatted /\ FindTitlePageEnd(doc) = title_end_idx) =>
        \A k \in ListItemPositions(doc, title_end_idx) : LastChar(doc[k]) = ListEnding(doc, title_end_idx, k)

QuotationMarks == {DQ, APOS, LOWQ, CURLQ}

Guillemets(text) == SelectSeq(text, LAMBDA c : c \in {LG, RG})

Alternating(marks) == \A i \in 1..Len(marks) : marks[i] = (IF i % 2 = 1 THEN LG ELSE RG)

\* C10: quote balance.  A paragraph whose text holds an even number of
\* quotation glyphs has, after quote unification, as many opening as closing
\* guillemets, opening and closing in turn across its runs.
QuoteBalance ==
    (pc = "once" /\ lastPass = "quotes") =>
        \A i \in 1..Len(doc) :
            Len(SelectSeq(ParaText(prev[i]), LAMBDA c : c \in QuotationMarks)) % 2 = 0 =>
                Alternating(Guillemets(ParaText(doc[i])))

\* the paragraph at position k (1-based) lies at or after the boundary found on load
InScope(k) == k - 1 >= title_end_idx

\* 'PRILOZHENIE <letter>'
IsAppendixHeading(text) ==
    LET u == Strip(text)
        n == Len(W_PRILOZHENIE)
    IN Len(u) = n + 2 /\ StartsWith(u, W_PRILOZHENIE) /\ u[n + 1] = SP /\ u[n + 2] \in UpperSet

\* a number, an optional dot, white space, a capital letter: '1 Ab'
IsNumberedHeading(text) ==
    LET u == Strip(text)
        j == SkipSet(u, 1, Digits)
        k == IF j <= Len(u) /\ u[j] = DOT THEN j + 1 ELSE j
        m == SkipSet(u, k, WS)
    IN j > 1 /\ m > k /\ m <= Len(u) /\ u[m] \in UpperSet

NeedsPageBreak(p) ==
    ~IsBlankText(p) /\ (IsMainHeading(ParaText(p)) \/ IsAppendixHeading(ParaText(p)) \/ IsNumberedHeading(ParaText(p)))

\* C11: page-break flag.  In the saved document every paragraph at index >=
\* boundary that is a section heading, a level-1 numbered heading or an
\* appendix heading has page-break-before set, and no other paragraph has.
PageBreakFlag ==
    Formatted => \A k \in 1..Len(doc) : InScope(k) => (doc[k].pbb <=> NeedsPageBreak(doc[k]))

\* the input paragraphs (by their number in the input) of d that hold an image
ImageBearing(d) == {d[k].oid : k \in {j \in 1..Len(d) : InScope(j) /\ HasImage(d[j])}}

\* C12: image preservation.  The image-bearing paragraphs at index >=
\* boundary are the same before and after format_document: no stage removes
\* a paragraph that carries an image, or the image it carries.
ImagePreservation ==
    Formatted => ImageBearing(doc) = ImageBearing(doc0)

\* C13: blank-paragraph pruning.  In the saved document no two consecutive
\* paragraphs at index >= boundary are both blank (no text, no image), and
\* no main heading at index > boundary has a blank paragraph directly above.
BlankPruning ==
    Formatted =>
        \A k \in 2..Len(doc) :
            (InScope(k - 1) /\ IsRemovableBlank(doc[k - 1])) =>
                /\ ~IsRemovableBlank(doc[k])
                /\ ~(~IsBlankText(doc[k]) /\ IsMainHeading(ParaText(doc[k])))

\* 'Tablica n <en dash> ...'
IsCaptionOfTable(p, n) ==
    StartsWith(Strip(ParaText(p)), W_Tablica \o <<SP>> \o NumStr(n) \o <<SP, EN>>)

\* C14: table captions.  For the t-th table of the document the saved
\* document holds a caption paragraph numbered t.
TableCaptionPerTable ==
    Formatted => \A n \in 1..Len(tables) : \E k \in 1..Len(doc) : IsCaptionOfTable(doc[k], n)

\* C15: stage order.  Once a text-normalizer pass has run, no stage of the
\* same call inserts or removes a paragraph: the normalizer works on the
\* final paragraph set and only the save follows it.
NoStructuralEditAfterNormalizer ==
    (Loaded /\ \E i \in 1..(Len(done) - 1) : done[i] \in NormalizerPasses) => Len(doc) = Len(prev)

ClaimedPassOrder == <<"spaces", "dashes", "colons", "abbreviations", "nbsp", "quotes", "list_first_letter">>

\* C16: normalizer pass order.  In a call that returns True the passes have
\* run once each in the order space collapse, dashes, colons, abbreviations,
\* non-breaking spaces, quotes, list leading-letter decapitalization.
NormalizerPassOrder ==
    Formatted =>
        SelectSeq(done, LAMBDA x : \E i \in 1..Len(ClaimedPassOrder) : ClaimedPassOrder[i] = x) = ClaimedPassOrder

\* 't.k.' or 't.e.' at position i of a run, at the start of the run or after
\* a lower-case letter and one space
UnguardedAbbreviation(text, i) ==
    /\ i + 3 <= Len(text)
    /\ text[i] = "t" /\ text[i + 1] = DOT /\ text[i + 2] \in {"k", "e"} /\ text[i + 3] = DOT
    /\ (i = 1 \/ (i >= 3 /\ text[i - 1] = SP /\ text[i - 2] \in LowerSet))

\* C17: abbreviation expansion.  After the abbreviation pass no run holds a
\* 't.k.' / 't.e.' that stands at the start of the run or after an ordinary
\* lower-case word and a space: each of them has been expanded.
AbbreviationExpansion ==
    (pc = "once" /\ lastPass = "abbreviations") =>
        \A k \in 1..Len(doc) : \A r \in 1..Len(RunTexts(doc[k])) :
            \A i \in 1..Len(RunTexts(doc[k])[r]) : ~UnguardedAbbreviation(RunTexts(doc[k])[r], i)

SpaceBeforeColon(text) == \E i \in 2..Len(text) : text[i] = COL /\ text[i - 1] \in {SP, NBSP}

\* C18: colon spacing.  After colon normalization no colon of a run is
\* directly preceded by a space or a non-breaking space.
ColonSpacing ==
    (pc = "once" /\ lastPass = "colons") =>
        \A k \in 1..Len(doc) : \A r \in 1..Len(RunTexts(doc[k])) : ~SpaceBeforeColon(RunTexts(doc[k])[r])

SpacedHyphen(text) == \E i \in 2..(Len(text) - 1) : text[i] = HY /\ text[i - 1] = SP /\ text[i + 1] = SP

HasEmDash(text) == \E i \in 1..Len(text) : text[i] = EM

DashesDone(p) == \A r \in 1..Len(RunTexts(p)) : ~HasEmDash(RunTexts(p)[r]) /\ ~SpacedHyphen(RunTexts(p)[r])

\* C19: dash normalization.  In the saved document no run of a paragraph at
\* index >= boundary or of a table cell holds an em-dash, or a hyphen with a
\* space on both sides: such dashes have become en-dashes.
DashNormalization ==
    Formatted =>
        /\ \A k \in 1..Len(doc) : InScope(k) => DashesDone(doc[k])
        /\ \A n \in 1..Len(tables) : \A c \in 1..Len(tables[n]) : DashesDone(tables[n][c])

\* the first alphabetic character of the text is a capital not followed by a capital
CapitalStart(text) ==
    LET L == {i \in 1..Len(text) : IsAlpha(text[i])}
        j == CHOOSE i \in L : \A x \in L : i <= x
    IN L # {} /\ text[j] \in UpperSet /\ ~(j < Len(text) /\ text[j + 1] \in UpperSet)

\* the first run of the paragraph that is not blank, <<>> if there is none
FirstTextRun(p) ==
    LET ts == RunTexts(p)
        S == {r \in 1..Len(ts) : Strip(ts[r]) # <<>>}
    IN IF S = {} THEN <<>> ELSE ts[CHOOSE r \in S : \A x \in S : r <= x]

\* C20: list decapitalization.  In the saved document the first letter of
\* the first non-empty run of every list item at index >= boundary is
\* lower-case, unless the letter after it is a capital too.
ListDecapitalization ==
    Formatted => \A k \in 1..Len(doc) : (InScope(k) /\ IsListItem(doc[k])) => ~CapitalStart(FirstTextRun(doc[k]))

(***************************************************************************)
(* Paragraph styles at the end of the pipeline                             *)
(***************************************************************************)
T_subheading == <<"1", DOT, "1", SP, "A", "b">>
T_tableWord == W_Tablica \o <<SP, "a">>

\* a level-2 heading, a paragraph that begins with the word 'Tablica', a table
\* caption, the bibliography marker with an entry, a list item, text
StylePool ==
    {Blank, Plain(<<"a">>), Plain(T_subheading), Plain(T_tableWord), Plain(T_table),
     Plain(W_SPISOK_LIT), ListItem(<<"b">>)}

InitStyles == InitPipeline(DocsOver(StylePool, MaxParas), {<<>>})
SpecStyles == InitStyles /\ [][Next]_vars

AllBold(p) == \A i \in 1..Len(p.items) : p.items[i].bold = "yes"
NoneBold(p) == \A i \in 1..Len(p.items) : p.items[i].bold # "yes"

\* the paragraphs after the bibliography marker: entries, with a row of their own
AfterBibliographyMarker(d, k) == BibliographyStart(d) >= 0 /\ k - 1 > BibliographyStart(d)

\* C21: style table conformance.  In the document format_document saves,
\* every non-blank paragraph at or after the boundary carries the alignment,
\* first-line indent and bold flag of its row of the style table.  Outside
\* the bibliography: a level-2/3 numbered heading ('1.1 ...') is justified
\* with the base first-line indent and bold; a table caption
\* ('Tablica N - ...') is left-aligned with zero indent and not bold; a
\* paragraph that merely begins with the word 'Tablica' and is neither a
\* caption nor a list item is a regular paragraph, justified with the base
\* indent.
StyleTable ==
    Formatted =>
        \A k \in 1..Len(doc) :
            LET p == doc[k]
                text == ParaText(p)
            IN (/\ InScope(k) /\ ~IsBlankText(p) /\ ~IsMainHeading(text)
                /\ ~AfterBibliographyMarker(doc, k)) =>
                /\ IsSubheading(text) =>
                       p.align = "justify" /\ p.first = GOST_INDENT_CM /\ AllBold(p)
                /\ ~IsSubheading(text) /\ IsTableCaption(text) =>
                       p.align = "left" /\ p.first = "0" /\ NoneBold(p)
                /\ (/\ ~IsSubheading(text) /\ ~IsTableCaption(text) /\ ~IsListItem(p)
                    /\ StartsAtCI(Strip(text), 1, W_Tablica)) =>
                       p.align = "justify" /\ p.first = GOST_INDENT_CM

(***************************************************************************)
(* Documents with a title page above the contents marker                   *)
(***************************************************************************)
\* what stands above the contents marker: nothing, an image, blanks, a heading and a blank
TitlePages == {<<>>, <<Image>>, <<Blank, Blank>>, <<Plain(T_intro), Blank>>}

BoundaryPool == {Blank, Image, Plain(<<"a">>), Plain(T_intro)}

\* a title page, the contents marker, then up to MaxParas paragraphs
BoundaryDocs ==
    {[k \in 1..Len(d) |-> [d[k] EXCEPT !.oid = k]] :
        d \in {title \o <<Plain(T_contents)>> \o body :
                 title \in TitlePages, body \in UNION {[1..m -> BoundaryPool] : m \in 0..MaxParas}}}

InitBoundary == InitPipeline(BoundaryDocs, {<<>>})
SpecBoundary == InitBoundary /\ [][Next]_vars

\* the paragraph identities of a document, in order
Oids(d) == [k \in 1..Len(d) |-> d[k].oid]

\* C22: boundary stability under structural edits.  From load to return,
\* whatever the stages insert or remove, the paragraphs below the boundary
\* computed on load are the same paragraphs at the same positions as on load
\* (so their number never changes), and when that boundary is the index of a
\* contents marker, the paragraph at the boundary index is still that marker
\* paragraph: every insertion and removal happens at an index >= boundary.
BoundaryStability ==
    Loaded =>
        /\ Len(doc) >= title_end_idx
        /\ SubSeq(Oids(doc), 1, title_end_idx) = SubSeq(Oids(doc0), 1, title_end_idx)
        /\ Upper(Strip(ParaText(doc0[title_end_idx + 1]))) \in TitleMarkers =>
               /\ Len(doc) > title_end_idx
               /\ doc[title_end_idx + 1].oid = doc0[title_end_idx + 1].oid

\* a first call returns a document with a title page, in which a caption was
\* inserted and a paragraph removed at or after the boundary
EditedBelowTitlePage ==
    /\ Formatted
    /\ title_end_idx >= 1
    /\ \E k \in 1..Len(doc) : doc[k].oid = 0
    /\ \E k \in 1..Len(doc0) : \A j \in 1..Len(doc) : doc[j].oid # doc0[k].oid

(***************************************************************************)
(* Lists: two items with a gap between them                                *)
(***************************************************************************)
MaxGap == 3

\* list items: plain, ending in ';', a hyperlink followed by a run ending in
\* ';', a run ending in ',' followed by a hyperlink
ListPool ==
    {ListItem(<<"a">>), ListItem(<<"b", SEMI>>),
     InputPara(<<<<"a">>, <<"b", SEMI>>>>, FALSE, TRUE, {1}),
     InputPara(<<<<"b", COMMA>>, <<"a">>>>, FALSE, TRUE, {2})}

\* what stands between two items: 0..MaxGap blank paragraphs, or a paragraph of text
Gaps == {[j \in 1..g |-> Blank] : g \in 0..MaxGap} \cup {<<Plain(<<"a">>)>>}

ListDocs ==
    {[k \in 1..Len(d) |-> [d[k] EXCEPT !.oid = k]] :
        d \in {<<first>> \o gap \o <<second>> : first \in ListPool, gap \in Gaps, second \in ListPool}
              \cup {<<only>> : only \in ListPool}}

InitLists == InitPipeline(ListDocs, {<<>>})
SpecLists == InitLists /\ [][Next]_vars

\* _fix_list_punctuation has just returned: prev is the document it was given
ListsPunctuated == pc = "dashes" /\ lastPass = "list_punctuation"

\* the list items of a document without a bibliography (positions, 1-based)
Items(d) == {k \in 1..Len(d) : InScope(k) /\ IsListItem(d[k]) /\ ~IsBlankText(d[k])}

\* C23: list grouping.  Two list items with nothing but blank paragraphs
\* between them belong to the same list, however many the blank paragraphs
\* are: list punctuation leaves the earlier one ending with ';'.  Only a
\* non-blank paragraph that is not a list item between them starts a new
\* list, and then the earlier item ends with '.'.
ListGrouping ==
    (ListsPunctuated /\ BibliographyStart(prev) = -1) =>
        \A k \in Items(prev) : \A m \in Items(prev) :
            (k < m /\ \A j \in (k + 1)..(m - 1) : j \notin Items(prev)) =>
                LastChar(doc[k]) =
                    (IF \A j \in (k + 1)..(m - 1) : IsBlankText(prev[j]) THEN SEMI ELSE DOT)

\* C24: terminal character replacement.  When list punctuation changes an
\* item whose last fragment is a text run ending in one of . ; , : ! the
\* character is replaced by the required ending: the item keeps its
\* fragments and its length and ends with '.' or ';' after the unchanged
\* rest of its text.  A fragment is appended only to an item whose last
\* fragment is a hyperlink.
TerminalReplacement ==
    ListsPunctuated =>
        \A k \in 1..Len(doc) :
            LET p == prev[k]
                n == Len(p.items)
                text == ParaText(p)
            IN doc[k] # p =>
                /\ (n > 0 /\ ~p.items[n].link /\ p.items[n].text # <<>>
                    /\ p.items[n].text[Len(p.items[n].text)] \in TerminalChars) =>
                       /\ Len(doc[k].items) = n
                       /\ Len(ParaText(doc[k])) = Len(text)
                       /\ SubSeq(ParaText(doc[k]), 1, Len(text) - 1) = SubSeq(text, 1, Len(text) - 1)
                       /\ LastChar(doc[k]) \in {DOT, SEMI}
                /\ Len(doc[k].items) > n => (n > 0 /\ p.items[n].link)

\* C25: bibliography exclusion.  List punctuation changes the text of no
\* paragraph at or after the first bibliography marker paragraph, wherever
\* that marker stands, index 0 included.
BibliographyExclusion ==
    ListsPunctuated =>
        \A k \in 1..Len(doc) :
            (BibliographyStart(prev) >= 0 /\ k - 1 >= BibliographyStart(prev)) =>
                ParaText(doc[k]) = ParaText(prev[k])

(***************************************************************************)
(* _process_figures step by step: one action per turn of its while loop    *)
(***************************************************************************)
\* a loop body that would look at the same paragraph again after inserting a caption
LoopBodyRescan(d, i, n) ==
    IF ~HasImage(d[i + 1]) THEN [d |-> d, i |-> i + 1, figure_number |-> n]
    ELSE IF i + 1 >= Len(d) THEN [d |-> d, i |-> i + 1, figure_number |-> n + 1]
    ELSE IF IsFigureCaption(ParaText(d[i + 2]))
         THEN [d |-> [d EXCEPT ![i + 2] = FixFigureCaptionNumber(@, n + 1)], i |-> i + 1, figure_number |-> n + 1]
         ELSE [d |-> InsertFigureCaption(d, i + 1, n + 1), i |-> i, figure_number |-> n + 1]

\* one turn of the loop at index i (0-based) with the counter at n: the
\* document, the index and the counter it leaves
LoopBody(d, i, n) ==
    IF ~HasImage(d[i + 1]) THEN [d |-> d, i |-> i + 1, figure_number |-> n]
    ELSE IF i + 1 >= Len(d) THEN [d |-> d, i |-> i + 1, figure_number |-> n + 1]
    ELSE IF IsFigureCaption(ParaText(d[i + 2]))
         THEN [d |-> [d EXCEPT ![i + 2] = FixFigureCaptionNumber(@, n + 1)], i |-> i + 1, figure_number |-> n + 1]
         ELSE [d |-> InsertFigureCaption(d, i + 1, n + 1), i |-> i + 1, figure_number |-> n + 1]

\* figure_number = 0; i = title_end_idx
ScanBegin ==
    /\ pc = "figures"
    /\ pc' = "scan"
    /\ scan' = [i |-> title_end_idx, figure_number |-> 0]
    /\ UNCHANGED <<handler, doc, tables, title_end_idx, result, saved, exists, invocation, doc0, out1, prev,
                   lastPass, done>>

\* while i < len(doc.paragraphs): the length is read again at every turn
ScanStep ==
    /\ pc = "scan"
    /\ scan.i < Len(doc)
    /\ \E s \in {LoopBody(doc, scan.i, scan.figure_number)} :
        /\ doc' = s.d
        /\ scan' = [i |-> s.i, figure_number |-> s.figure_number]
    /\ prev' = doc
    /\ UNCHANGED <<handler, tables, pc, title_end_idx, result, saved, exists, invocation, doc0, out1, lastPass,
                   done>>

\* the loop condition is false: _process_figures returns
ScanEnd ==
    /\ pc = "scan"
    /\ scan.i >= Len(doc)
    /\ pc' = "scanned"
    /\ lastPass' = "figures"
    /\ UNCHANGED <<scan, handler, doc, tables, title_end_idx, result, saved, exists, invocation, doc0, out1,
                   prev, done>>

\* images with and without caption text, a caption, text
ScanPool == {Image, InputPara(<<T_captionNoNumber>>, TRUE, FALSE, {}), Plain(T_caption5), Plain(<<"a">>)}

\* documents without a contents marker, and documents with an image on the
\* title page above the marker
ScanDocs ==
    DocsOver(ScanPool, MaxParas) \cup
    {[k \in 1..Len(d) |-> [d[k] EXCEPT !.oid = k]] :
        d \in {<<Image, Plain(T_contents)>> \o body : body \in UNION {[1..m -> ScanPool] : m \in 0..(MaxParas - 1)}}}

InitScan ==
    /\ doc \in ScanDocs
    /\ tables = <<>>
    /\ pc = "call"
    /\ title_end_idx = 0
    /\ result = "none"
    /\ saved = 0
    /\ exists = TRUE
    /\ invocation = 1
    /\ doc0 = doc
    /\ out1 = [doc |-> <<>>, tables |-> <<>>]
    /\ prev = doc
    /\ lastPass = "none"
    /\ done = <<>>
    /\ scan = NoScan
    /\ handler = NoHandler

NextScan ==
    \/ Load
    \/ ScanBegin
    \/ ScanStep
    \/ ScanEnd

\* the loop is straight-line code of one call: it keeps running until it returns
SpecScan == InitScan /\ [][NextScan]_vars /\ WF_vars(NextScan)

\* the captions the scan inserted (positions, 1-based): the input's paragraphs carry oid >= 1
InsertedAt(d) == {k \in 1..Len(d) : d[k].oid = 0}

\* _process_figures has returned, the scan having reached the end of the
\* document; the counter is the number of image-bearing paragraphs at index
\* >= boundary of the document it leaves; every inserted caption stands
\* right after an image-bearing paragraph of the input and bears no image;
\* the result is that of the whole-stage operator
ScanCompleted ==
    /\ pc = "scanned"
    /\ scan.i = Len(doc)
    /\ scan.figure_number = Cardinality({k \in 1..Len(doc) : InScope(k) /\ HasImage(doc[k])})
    /\ \A k \in InsertedAt(doc) :
        /\ ~HasImage(doc[k])
        /\ k > 1 /\ k - 1 > title_end_idx
        /\ HasImage(doc[k - 1]) /\ doc[k - 1].oid # 0
    /\ doc = ProcessFigures(doc0, title_end_idx)
    /\ scan.figure_number = FiguresLoop(doc0, title_end_idx, 0).figure_number

ALLOWED_EXTENSIONS == {<<DOT, "d", "o", "c", "x">>, <<DOT, "d", "o", "c">>}

is_valid_document(filename) == \E ext \in ALLOWED_EXTENSIONS : EndsWith(Lower(filename), ext)

\* the two temporary paths of one call
TempPaths == {"input", "output"}

\* an error message the user can be shown
ErrorReplies == {"reject", "unexpected_error"}

\* the handler's steps leave the variables of format_document alone
PipelineIdle ==
    UNCHANGED <<scan, doc, tables, pc, title_end_idx, result, saved, exists, invocation, doc0, out1, prev,
                lastPass, done>>

\* document = update.message.document; if not is_valid_document(document.file_name)
Validate ==
    /\ handler.pc = "start"
    /\ handler' = [handler EXCEPT !.pc = IF is_valid_document(handler.file_name) THEN "announce" ELSE "reject"]
    /\ PipelineIdle

\* reply_text asking for a .docx file, then return
RejectReply ==
    /\ handler.pc = "reject"
    /\ handler' = [handler EXCEPT !.replies = Append(@, "reject"), !.pc = "finally"]
    /\ PipelineIdle

\* processing_msg = reply_text(the processing notice)
Announce ==
    /\ handler.pc = "announce"
    /\ handler' = [handler EXCEPT !.processing_msg = "processing", !.pc = "get_file"]
    /\ PipelineIdle

\* ensure_temp_dir, bot.get_file, input_path = ...
GetFile ==
    /\ handler.pc = "get_file"
    /\ handler' = [handler EXCEPT !.input_path = "input", !.pc = "download"]
    /\ PipelineIdle

\* file.download_to_drive(input_path)
Download ==
    /\ handler.pc = "download"
    /\ handler' = [handler EXCEPT !.files = @ \cup {"input"}, !.pc = "format"]
    /\ PipelineIdle

\* output_path = ...; format_document(input_path, output_path) is entered
CallFormat ==
    /\ handler.pc = "format"
    /\ handler' = [handler EXCEPT !.output_path = "output", !.pc = "formatting"]
    /\ pc' = "call"
    /\ exists' = ("input" \in handler.files)
    /\ UNCHANGED <<scan, doc, tables, title_end_idx, result, saved, invocation, doc0, out1, prev, lastPass, done>>

\* format_document has returned: success is its result; doc.save has written
\* the output file, and a doc.save that raised may have left a part of it
FormatReturned ==
    /\ handler.pc = "formatting"
    /\ pc = "returned"
    /\ \E written \in BOOLEAN :
        /\ written = TRUE => (saved > 0 \/ lastPass = "save")
        /\ written = FALSE => saved = 0
        /\ handler' = [handler EXCEPT
               !.files = IF written THEN @ \cup {"output"} ELSE @,
               !.pc = IF result = "True" THEN "send_document" ELSE "report_failure"]
    /\ PipelineIdle

\* open(output_path) and reply_document
SendDocument ==
    /\ handler.pc = "send_document"
    /\ handler' = [handler EXCEPT !.replies = Append(@, "document"), !.pc = "confirm"]
    /\ PipelineIdle

\* processing_msg.edit_text(the success message)
Confirm ==
    /\ handler.pc = "confirm"
    /\ handler' = [handler EXCEPT !.processing_msg = "success", !.pc = "finally"]
    /\ PipelineIdle

\* processing_msg.edit_text(the formatting error message)
ReportFailure ==
    /\ handler.pc = "report_failure"
    /\ handler' = [handler EXCEPT !.processing_msg = "format_error", !.pc = "finally"]
    /\ PipelineIdle

\* the steps that talk to Telegram or to the disk can raise
RaisingSteps == {"reject", "announce", "get_file", "download", "send_document", "confirm", "report_failure"}

\* an exception inside the try block: control goes to the except clause; a
\* download that raised may have left a part of the input file
Raise ==
    /\ handler.pc \in RaisingSteps
    /\ \E partial \in BOOLEAN :
        /\ partial => handler.pc = "download"
        /\ handler' = [handler EXCEPT !.files = IF partial THEN @ \cup {"input"} ELSE @, !.pc = "except"]
    /\ PipelineIdle

\* except Exception: reply_text(the unexpected error message)
Except ==
    /\ handler.pc = "except"
    /\ handler' = [handler EXCEPT !.replies = Append(@, "unexpected_error"), !.pc = "finally"]
    /\ PipelineIdle

\* the reply_text of the except clause raises itself: the exception leaves the handler after the finally clause
ExceptRaises ==
    /\ handler.pc = "except"
    /\ handler' = [handler EXCEPT !.raised = TRUE, !.pc = "finally"]
    /\ PipelineIdle

\* finally: cleanup_files([path for path in [input_path, output_path] if path])
Finally ==
    /\ handler.pc = "finally"
    /\ handler' = [handler EXCEPT
           !.paths = SelectSeq(<<handler.input_path, handler.output_path>>, LAMBDA path : path # "None"),
           !.pc = "cleanup"]
    /\ PipelineIdle

\* a cleanup loop that would give up at the first file it cannot delete
CleanupFileStopsOnFailure ==
    /\ handler.pc = "cleanup"
    /\ handler.paths # <<>>
    /\ LET file_path == Head(handler.paths)
           fails == file_path \in handler.files /\ file_path \in handler.locked
       IN handler' = [handler EXCEPT
              !.attempted = Append(@, file_path),
              !.files = IF file_path \in handler.locked THEN @ ELSE @ \ {file_path},
              !.paths = IF fails THEN <<>> ELSE Tail(@)]
    /\ PipelineIdle

\* one turn of the loop of cleanup_files: os.remove if os.path.exists, an
\* exception of os.remove being caught and logged
CleanupFile ==
    /\ handler.pc = "cleanup"
    /\ handler.paths # <<>>
    /\ LET file_path == Head(handler.paths)
       IN handler' = [handler EXCEPT
              !.attempted = Append(@, file_path),
              !.files = IF file_path \in handler.locked THEN @ ELSE @ \ {file_path},
              !.paths = Tail(@)]
    /\ PipelineIdle

\* cleanup_files has returned, and with it the handler
CleanupDone ==
    /\ handler.pc = "cleanup"
    /\ handler.paths = <<>>
    /\ handler' = [handler EXCEPT !.pc = "returned"]
    /\ PipelineIdle

\* format_document runs inside the handler
FormatDocument ==
    /\ handler.pc = "formatting"
    /\ \/ Load
       \/ DoProcessFigures \/ DoProcessPageBreaks \/ DoFormatDocumentContent \/ DoFixListPunctuation
       \/ DoFixDashes \/ DoFixColons \/ DoFixMultipleSpaces \/ DoFixQuotes \/ DoFixNonBreakingSpaces
       \/ DoFormatTables \/ DoAddTableCaptions \/ DoFixAbbreviations \/ DoFormatBibliography
       \/ DoRemoveEmptyParagraphs
       \/ Save
       \/ Fault

F_docx == <<"a", DOT, "d", "o", "c", "x">>
F_DOC == <<"A", DOT, "D", "O", "C">>
F_pdf == <<"a", DOT, "p", "d", "f">>
F_docx_pdf == <<"a", DOT, "d", "o", "c", "x", DOT, "p", "d", "f">>
F_noDot == <<"d", "o", "c", "x">>

FileNames == {F_docx, F_DOC, F_pdf, F_docx_pdf, F_noDot}

\* a message with a file arrives; which temp files the file system will refuse to delete is not known
InitHandler ==
    /\ doc \in DocsOver({Plain(<<"a">>), Image}, MaxParas - 1)
    /\ tables = <<>>
    /\ pc = "idle"
    /\ title_end_idx = 0
    /\ result = "none"
    /\ saved = 0
    /\ exists = FALSE
    /\ invocation = 1
    /\ doc0 = doc
    /\ out1 = [doc |-> <<>>, tables |-> <<>>]
    /\ prev = doc
    /\ lastPass = "none"
    /\ done = <<>>
    /\ scan = NoScan
    /\ \E name \in FileNames : \E locked \in SUBSET TempPaths :
        handler = [NoHandler EXCEPT !.pc = "start", !.file_name = name, !.locked = locked]

NextHandler ==
    \/ Validate
    \/ RejectReply
    \/ Announce
    \/ GetFile
    \/ Download
    \/ CallFormat
    \/ FormatDocument
    \/ FormatReturned
    \/ SendDocument
    \/ Confirm
    \/ ReportFailure
    \/ Raise
    \/ Except
    \/ ExceptRaises
    \/ Finally
    \/ CleanupFile
    \/ CleanupDone

SpecHandler == InitHandler /\ [][NextHandler]_vars

HandlerReturned == handler.pc = "returned"

Received(message) == \E i \in 1..Len(handler.replies) : handler.replies[i] = message

\* the user holds an error message: a reply, or the processing notice edited into one
ErrorShown == (\E e \in ErrorReplies : Received(e)) \/ handler.processing_msg = "format_error"

\* C26: binary user-visible outcome.  When handle_document has returned the
\* user has either the formatted document with the success message or an
\* error message, never the formatted document together with an error
\* message, and has one of the two unless the reply of the except clause
\* could not be sent either; a file whose name has no allowed extension was
\* answered with an error message and neither downloaded nor formatted.
BinaryOutcome ==
    HandlerReturned =>
        /\ ~(Received("document") /\ ErrorShown)
        /\ ~handler.raised =>
               \/ Received("document") /\ handler.processing_msg = "success"
               \/ ErrorShown
        /\ ~is_valid_document(handler.file_name) =>
               /\ ~Received("document")
               /\ handler.input_path = "None" /\ handler.output_path = "None"
               /\ handler.attempted = <<>> /\ pc = "idle"

\* C28: temporary-file cleanup.  When handle_document has returned, by
\* whatever path (success, format_document returning False, an exception at
\* any step, the except clause's own reply raising), cleanup_files has tried
\* to delete every temp path that had been assigned, the input path first
\* and the output path after it whether or not the first deletion failed,
\* and no temp file of the call is left except one whose deletion failed.
CleanupOnEveryExit ==
    HandlerReturned =>
        /\ handler.attempted =
               SelectSeq(<<handler.input_path, handler.output_path>>, LAMBDA path : path # "None")
        /\ handler.files \subseteq handler.locked
        /\ handler.paths = <<>>

\* the formatted document was sent, the input file could not be deleted, and
\* the output file was deleted after it
OutputDeletedAfterInputFailed ==
    /\ HandlerReturned
    /\ Received("document")
    /\ handler.attempted = <<"input", "output">>
    /\ handler.files = {"input"}
    /\ handler.locked = {"input"}

====
